---- MODULE Spec2Model ----
(***************************************************************************)
(* A model of the live-chat download scripts.                              *)
(*                                                                         *)
(*   SpecLive : one run of live_chat.py (fetch_chat_replay and the         *)
(*              functions it calls).                                       *)
(*   Spec     : one run of chat_from_txt.py in batch mode (main,           *)
(*              process_video, run_live_chat_script, signal_handler).      *)
(*   SpecPosition : one run of chat_from_txt.py with --position.           *)
(*   SpecRead     : chat_from_txt.py started on a manifest file given as   *)
(*              its characters (read_text_file), with --position 1.        *)
(*   SpecPlaylist : one run of ytpedlp.py on the output of yt-dlp, then    *)
(*              chat_from_txt.py reading the file it wrote.                *)
(*   SpecChat     : one call of chat.py's download_live_chat_replay.       *)
(*                                                                         *)
(* Scripts that are not part of a specification keep their variables at    *)
(* the initial values.                                                     *)
(*                                                                         *)
(* chat_from_txt.py sees live_chat.py only through subprocess.run: its     *)
(* exit status, the timeout, and the file it may have written.  SIGINT can *)
(* arrive between any two steps of main.  The file-system calls that are   *)
(* outside a try block (os.makedirs and shutil.copy2 at lines 211-213)     *)
(* succeed; no other process changes the files during the run.             *)
(***************************************************************************)
EXTENDS Integers, Sequences, FiniteSets

VARIABLES
    \* ---- live_chat.py ----
    lc_pc,          \* position of the run inside fetch_chat_replay
    lc_dir,         \* whether output_dir exists
    lc_requests,    \* the HTTP GET requests issued so far, in order
    lc_page_status, \* status code of the watch-page response (0: none yet)
    lc_html,        \* the watch page received (None: none yet)
    lc_yt_data,     \* yt_data returned by get_video_info
    lc_player_data, \* player_data returned by get_video_info
    lc_chat_url,    \* chat_url of fetch_chat_replay
    lc_chat_status, \* status code of the chat response (0: none yet)
    lc_opens,       \* how often the output file was opened for writing
    lc_exit,        \* exit status of the process (NotExited while running)
    \* ---- chat_from_txt.py ----
    videos,            \* the list returned by read_text_file
    force,             \* args.force
    start_position,    \* args.start (None when absent)
    interrupted,       \* the global flag set by signal_handler
    pc,                \* position of main
    videos_to_process, \* the list the batch loop iterates over
    idx,               \* index of the loop's current video (1-based)
    successful_count,  \* main's counter
    files,             \* the files that exist, as <<dir, videoId, name>>
    json_dir,          \* whether the directory "json" exists
    running,           \* number of live_chat.py subprocesses running
    calls,             \* one record per process_video call, in call order
    outcome,           \* how the last subprocess.run ended ("none": not run)
    summary,           \* the summary line printed (None before)
    exit_status,       \* exit status of chat_from_txt.py
    target_position,   \* args.position (None when absent)
    target_video,      \* main's target_video (None until found)
    text_file,         \* the manifest file's characters (None: no such file)
    yt_pc,             \* where the ytpedlp.py run stands
    yt_returncode,     \* exit status of yt-dlp
    yt_stdout,         \* the lines yt-dlp printed
    yt_videos,         \* videos of ytpedlp.py's main
    ch_pc,             \* where download_live_chat_replay of chat.py stands
    ch_bound,          \* all_messages has been assigned
    ch_count,          \* len(all_messages)
    ch_gets,           \* calls of chat.get() so far
    ch_temp,           \* messages in <id>_chat_temp.json (None: no such file)
    ch_final,          \* messages in <id>_live_chat.json (None: no such file)
    ch_error,          \* what the download block raised, "none" before
    ch_result          \* how the call ended (None while it runs)

lc_vars == <<lc_pc, lc_dir, lc_requests, lc_page_status, lc_html, lc_yt_data,
             lc_player_data, lc_chat_url, lc_chat_status, lc_opens, lc_exit>>

batch_vars == <<videos, force, start_position, interrupted, pc,
                videos_to_process, idx, successful_count, files, json_dir,
                running, calls, outcome, summary, exit_status,
                target_position, target_video>>

\* The manifest written by ytpedlp.py and read by chat_from_txt.py.
mf_vars == <<text_file, yt_pc, yt_returncode, yt_stdout, yt_videos>>

\* A call of chat.py's download_live_chat_replay.
ch_vars == <<ch_pc, ch_bound, ch_count, ch_gets, ch_temp, ch_final, ch_error, ch_result>>

vars == <<lc_vars, batch_vars, mf_vars, ch_vars>>

\* Python's None is the empty tuple and a value x is <<x>>, so that the two
\* compare; a process that has not exited has no exit status.
None == <<>>
Some(x) == <<x>>
NotExited == None

\* ---------------------------------------------------------------- bounds
\* Longest captionTracks list of a player response.
MaxTracks == 1
\* Longest manifest (data rows).
MaxRows == 2
\* Most files present when chat_from_txt.py starts.
MaxFiles == 1
\* Most calls of chat.get() in one download.
MaxGets == 3

\* ------------------------------------------------------------ live_chat.py
\* response.status_code != 200 is the test of lines 35 and 152.
HTTP_OK == 200

StatusCodes == {200, 404, 429, 500}

RECURSIVE SeqsUpTo(_, _)
SeqsUpTo(S, n) ==
    IF n = 0 THEN {<<>>}
    ELSE LET shorter == SeqsUpTo(S, n - 1)
         IN  shorter \cup {Append(s, x) : s \in {t \in shorter : Len(t) = n - 1}, x \in S}

\* One entry of captionTracks: its "kind", its name.simpleText and whether
\* it carries a baseUrl ("url": a non-empty one, "empty": "", "missing": no key).
Tracks == [kind : {"asr", "standard"},
           name : {"Live_Chat replay", "English"},
           baseUrl : {"url", "empty", "missing"}]

\* What the code reads of a parsed ytInitialPlayerResponse: the caption
\* tracks, whether the text liveChatRenderer occurs in it, and whether
\* videoDetails.videoId is set.
PlayerData == [tracks : SeqsUpTo(Tracks, MaxTracks),
               marker : BOOLEAN,
               videoId : BOOLEAN]

\* What the code reads of a parsed ytInitialData: whether some object has a
\* string-valued "continuation" key, and the first replayChatItemAction of
\* conversationBar.liveChatRenderer.actions ("none": no such action,
\* "token": it carries replayContinuationData.continuation, "no_token": not).
YtData == [contKey : BOOLEAN, replay : {"none", "token", "no_token"}]

\* A blob embedded in the page: which of the two regular expressions finds
\* it ("none": neither) and what json.loads makes of the captured text
\* (None: it raises JSONDecodeError).
Blobs(Data) ==
    {[pattern |-> "none", json |-> None]} \cup
    [pattern : {"var", "window"}, json : {None} \cup {Some(d) : d \in Data}]

Html == [yt : Blobs(YtData), player : Blobs(PlayerData)]

\* ---- get_video_info -------------------------------------------------
\* A variant that gives up only on server errors.
PageFetched_ServerErrorsOnly(status) == status < 500

\* Line 35: the page is used only when the status code is 200.
PageFetched(status) == status = HTTP_OK

\* Lines 42-48: one of the two ytInitialData patterns matches.
YtInitialDataFound(html) == html.yt.pattern \in {"var", "window"}

\* Lines 57-63: one of the two ytInitialPlayerResponse patterns matches.
PlayerResponseFound(html) == html.player.pattern \in {"var", "window"}

\* A variant that goes on with an empty ytInitialData when the page holds none.
get_video_info_LenientYtData(status, html) ==
    IF ~PageFetched(status) THEN [exit |-> 1]
    ELSE IF ~PlayerResponseFound(html) \/ html.player.json = None THEN [exit |-> 1]
    ELSE [exit |-> 0,
          yt_data |-> IF html.yt.json = None THEN [contKey |-> FALSE, replay |-> "none"]
                      ELSE html.yt.json[1],
          player_data |-> html.player.json[1]]

\* Lines 34-71. The result is the pair returned, or the exit status of the
\* sys.exit that ends the run instead.
get_video_info(status, html) ==
    IF ~PageFetched(status) THEN [exit |-> 1]
    ELSE IF ~YtInitialDataFound(html) THEN [exit |-> 1]
    ELSE IF html.yt.json = None THEN [exit |-> 1]
    ELSE IF ~PlayerResponseFound(html) THEN [exit |-> 1]
    ELSE IF html.player.json = None THEN [exit |-> 1]
    ELSE [exit |-> 0, yt_data |-> html.yt.json[1], player_data |-> html.player.json[1]]

\* ---- extract_chat_replay_url ----------------------------------------
\* The chat URLs the run can resolve.
CaptionUrl == "track.baseUrl"
EmptyUrl == ""
ReplayPageUrl == "https://www.youtube.com/live_chat_replay?v=<videoId>"
ContinuationUrl == "https://www.youtube.com/live_chat_replay/get_live_chat_replay?continuation=<token>"
NoUrl == "None"

\* "live_chat" in name.lower(), for the names of Tracks.
NameHasLiveChat(name) == name = "Live_Chat replay"

\* Line 81.
TrackMatches(track) == track.kind = "asr" \/ NameHasLiveChat(track.name)

\* Lines 80-82: the first matching track, 0 when there is none.
FirstMatchingTrack(tracks) ==
    IF \E i \in 1..Len(tracks) : TrackMatches(tracks[i])
    THEN CHOOSE i \in 1..Len(tracks) :
            /\ TrackMatches(tracks[i])
            /\ \A j \in 1..(i - 1) : ~TrackMatches(tracks[j])
    ELSE 0

\* Lines 73-93. track["baseUrl"] of a track without the key raises KeyError,
\* which the except clause turns into the result None.
extract_chat_replay_url(player_data) ==
    LET m == FirstMatchingTrack(player_data.tracks)
    IN  IF m # 0
        THEN CASE player_data.tracks[m].baseUrl = "url" -> CaptionUrl
               [] player_data.tracks[m].baseUrl = "empty" -> EmptyUrl
               [] OTHER -> NoUrl
        ELSE IF player_data.marker /\ player_data.videoId THEN ReplayPageUrl
        ELSE NoUrl

\* ---- get_continuation_tokens ----------------------------------------
\* Lines 99-102. json.dumps separates key and value by ": ", so the text
\* it returns never holds "continuation":"..." without the space.
DumpsMatchesContinuation(yt_data) == FALSE

\* Lines 95-114: whether a (truthy) continuation token is returned.
get_continuation_tokens(yt_data) ==
    \/ DumpsMatchesContinuation(yt_data)
    \/ yt_data.replay = "token"

\* Lines 128-137: the chat URL, NoUrl when the run exits instead.
ResolvedChatUrl(yt_data, player_data) ==
    LET chat_url == extract_chat_replay_url(player_data)
    IN  IF chat_url \notin {NoUrl, EmptyUrl} THEN chat_url
        ELSE IF get_continuation_tokens(yt_data) THEN ContinuationUrl
        ELSE NoUrl

\* Line 152.
ChatFetched(status) == status = HTTP_OK

\* A variant that repeats the chat request until it succeeds.
AfterChatResponse_Retry(status) == IF ChatFetched(status) THEN "save" ELSE "fetch"

\* Where a run goes after the chat response (lines 150-154).
AfterChatResponse(status) == IF ChatFetched(status) THEN "save" ELSE "exit"

\* ---- the run of live_chat.py ----------------------------------------
LiveExit(code) ==
    /\ lc_pc' = "exit"
    /\ lc_exit' = Some(code)

\* Lines 118-122.
MakeOutputDir ==
    /\ lc_pc = "start"
    /\ lc_dir' = TRUE
    /\ lc_pc' = "video_info"
    /\ UNCHANGED <<lc_requests, lc_page_status, lc_html, lc_yt_data, lc_player_data,
                   lc_chat_url, lc_chat_status, lc_opens, lc_exit, batch_vars, mf_vars, ch_vars>>

\* Line 125: the call of get_video_info, with the response of the server.
GetVideoInfo ==
    /\ lc_pc = "video_info"
    /\ \E status \in StatusCodes, html \in Html :
          LET r == get_video_info(status, html)
          IN  /\ lc_requests' = Append(lc_requests, "watch")
              /\ lc_page_status' = status
              /\ lc_html' = IF PageFetched(status) THEN Some(html) ELSE None
              /\ IF r.exit = 0
                 THEN /\ lc_yt_data' = Some(r.yt_data)
                      /\ lc_player_data' = Some(r.player_data)
                      /\ lc_pc' = "resolve"
                      /\ UNCHANGED lc_exit
                 ELSE /\ LiveExit(r.exit)
                      /\ UNCHANGED <<lc_yt_data, lc_player_data>>
    /\ UNCHANGED <<lc_dir, lc_chat_url, lc_chat_status, lc_opens, batch_vars, mf_vars, ch_vars>>

\* Lines 128-139.
ResolveChatUrl ==
    /\ lc_pc = "resolve"
    /\ LET url == ResolvedChatUrl(lc_yt_data[1], lc_player_data[1])
       IN  /\ lc_chat_url' = url
           /\ IF url = NoUrl THEN LiveExit(1)
              ELSE lc_pc' = "fetch" /\ UNCHANGED lc_exit
    /\ UNCHANGED <<lc_dir, lc_requests, lc_page_status, lc_html, lc_yt_data,
                   lc_player_data, lc_chat_status, lc_opens, batch_vars, mf_vars, ch_vars>>

\* Lines 150-154.
FetchChatData ==
    /\ lc_pc = "fetch"
    /\ \E status \in StatusCodes :
          /\ lc_requests' = Append(lc_requests, lc_chat_url)
          /\ lc_chat_status' = status
          /\ IF AfterChatResponse(status) = "exit" THEN LiveExit(1)
             ELSE lc_pc' = AfterChatResponse(status) /\ UNCHANGED lc_exit
    /\ UNCHANGED <<lc_dir, lc_html, lc_page_status, lc_yt_data, lc_player_data,
                   lc_chat_url, lc_opens, batch_vars, mf_vars, ch_vars>>

\* Lines 157-174 and main's lines 212-215: the file is opened for writing
\* and the body written as JSON or as raw text; an exception ends the run
\* with status 1, otherwise main returns and the process exits with 0.
SaveChatData ==
    /\ lc_pc = "save"
    /\ lc_opens' = lc_opens + 1
    /\ \E saved \in BOOLEAN : LiveExit(IF saved THEN 0 ELSE 1)
    /\ UNCHANGED <<lc_dir, lc_requests, lc_page_status, lc_html, lc_yt_data,
                   lc_player_data, lc_chat_url, lc_chat_status, batch_vars, mf_vars, ch_vars>>

\* ---------------------------------------------------------- chat_from_txt.py
\* ---- the manifest and the file system --------------------------------
\* The Position column's texts, as the characters of the string.
Positions == {<<"2">>, <<"1", "0">>, <<"x">>}

VideoIds == {"a", "b"}

\* A video of the list read_text_file returns; row is the number of its data
\* row in the manifest (the title is only printed).
Rows(n) == [row : {n}, position : Positions, videoId : VideoIds]

RECURSIVE Manifests(_)
Manifests(n) ==
    IF n = 0 THEN {<<>>}
    ELSE {Append(m, r) : m \in Manifests(n - 1), r \in Rows(n)}

\* A file is <<directory, video id, name after the id>>.
Standard == "_live_chat.json"
Replay == "_live_chat_replay.json"
Path(dir, video_id, name) == <<dir, video_id, name>>

AllPaths == {Path(d, v, n) : d \in {".", "json"}, v \in VideoIds, n \in {Standard, Replay}}

\* Lines 192-197 (and 106-111): the four candidates, in the order tried.
possible_locations(video_id) ==
    <<Path(".", video_id, Standard), Path(".", video_id, Replay),
      Path("json", video_id, Standard), Path("json", video_id, Replay)>>

\* A variant that looks in the current directory only.
FirstExisting_CurrentDirOnly(fs, video_id) ==
    LET locs == possible_locations(video_id)
    IN  IF locs[1] \in fs THEN 1 ELSE IF locs[2] \in fs THEN 2 ELSE 0

\* Lines 202-203: the first candidate that exists, 0 when none does.
FirstExisting(fs, video_id) ==
    LET locs == possible_locations(video_id)
    IN  IF \E i \in 1..4 : locs[i] \in fs
        THEN CHOOSE i \in 1..4 : locs[i] \in fs /\ \A j \in 1..(i - 1) : locs[j] \notin fs
        ELSE 0

\* ---- int() --------------------------------------------------------------
Digits == <<"0", "1", "2", "3", "4", "5", "6", "7", "8", "9">>

IsDigit(c) == \E d \in 1..10 : Digits[d] = c

DigitValue(c) == (CHOOSE d \in 1..10 : Digits[d] = c) - 1

RECURSIVE DecimalValue(_)
DecimalValue(s) ==
    IF s = <<>> THEN 0
    ELSE 10 * DecimalValue(SubSeq(s, 1, Len(s) - 1)) + DigitValue(s[Len(s)])

\* str.strip() for blanks, which int() applies to its argument.
RECURSIVE Strip(_)
Strip(s) ==
    IF s = <<>> THEN s
    ELSE IF s[1] = " " THEN Strip(Tail(s))
    ELSE IF s[Len(s)] = " " THEN Strip(SubSeq(s, 1, Len(s) - 1))
    ELSE s

\* int(text) of lines 267 and 288: Some(value), or None for ValueError.
\* Between surrounding blanks, an optional sign is followed by at least one
\* digit and nothing else.
ParseInt(text) ==
    LET s == Strip(text)
        signed == s # <<>> /\ s[1] \in {"+", "-"}
        body == IF signed THEN Tail(s) ELSE s
    IN  IF body = <<>> \/ \E k \in 1..Len(body) : ~IsDigit(body[k]) THEN None
        ELSE Some(IF signed /\ s[1] = "-" THEN 0 - DecimalValue(body) ELSE DecimalValue(body))

\* ---- main: the selection ---------------------------------------------
\* A variant that leaves out the video at the start position itself.
MeetsStart_Strict(video_position, start) == video_position > start

\* Line 289.
MeetsStart(video_position, start) == video_position >= start

\* Lines 286-293: whether the loop appends the video.
Selected(video, start) ==
    /\ ParseInt(video.position) # None
    /\ MeetsStart(ParseInt(video.position)[1], start)

\* Lines 281-293.
SelectVideos(all, start) ==
    IF start = None THEN all
    ELSE SelectSeq(all, LAMBDA v : Selected(v, start[1]))

\* ---- process_video and run_live_chat_script ---------------------------
\* A variant whose existence check is not switched off by --force.
ResumeHit_IgnoresForce(fs, video_id, force_flag) == FirstExisting(fs, video_id) # 0

\* Lines 201-203 and 218: the existence check finds a file and ends the call.
ResumeHit(fs, video_id, force_flag) ==
    ~force_flag /\ FirstExisting(fs, video_id) # 0

\* A variant that reports the file found without copying it.
ResumeCopy_NoCopy(fs, video_id) == fs

\* Lines 206-213: the files after the copy to json/<id>_live_chat.json.
ResumeCopy(fs, video_id) ==
    LET found == possible_locations(video_id)[FirstExisting(fs, video_id)]
        expected_path == Path("json", video_id, Standard)
    IN  IF found # expected_path THEN fs \cup {expected_path} ELSE fs

\* Lines 114-127: run_live_chat_script's own existence check. hit tells
\* whether it returns here; ret is the path returned.
ExistingChatData(fs, video_id, force_flag) ==
    LET i == FirstExisting(fs, video_id)
        found == possible_locations(video_id)[i]
        target == Path(found[1], video_id, Standard)
    IN  IF force_flag \/ i = 0 THEN [hit |-> FALSE, files |-> fs, ret |-> None]
        ELSE [hit |-> TRUE, files |-> fs \cup {target}, ret |-> Some(target)]

\* How subprocess.run and the code after it can end (lines 143-178).
Outcomes == {"exit0", "nonzero", "timeout", "exception"}

\* Lines 144-178 once the subprocess is over: the files and the path
\* returned (None for the failures).
AfterRun(fs, video_id, ended) ==
    LET src_file == Path("json", video_id, Replay)
        dst_file == Path("json", video_id, Standard)
    IN  IF ended # "exit0" THEN [files |-> fs, ret |-> None]
        ELSE IF src_file \in fs THEN [files |-> fs \cup {dst_file}, ret |-> Some(dst_file)]
        ELSE IF dst_file \in fs THEN [files |-> fs, ret |-> Some(dst_file)]
        ELSE [files |-> fs, ret |-> None]

\* Lines 223-228: what process_video returns for run_live_chat_script's result.
Succeeded(output_file) == output_file # None

\* A variant that counts every video processed.
Counted_EveryVideo(count, success) == count + 1

\* Lines 305-306.
Counted(count, success) == IF success THEN count + 1 ELSE count

\* A variant that never looks at the flag.
StopRequested_Never(flag) == FALSE

\* Line 300.
StopRequested(flag) == flag

\* A variant that stays at the same video.
NextVideo_Same(i) == i

\* The loop's step to the next video (line 298).
NextVideo(i) == i + 1

\* ---- the run of chat_from_txt.py --------------------------------------
CurrentVideo ==
    IF target_position # None THEN target_video[1] ELSE videos_to_process[idx]

\* Lines 254-256: read_text_file returned no video.
NoVideosFound ==
    /\ pc = "read"
    /\ videos = <<>>
    /\ pc' = "exit"
    /\ exit_status' = Some(1)
    /\ UNCHANGED <<videos, force, start_position, interrupted, videos_to_process, idx,
                   successful_count, files, json_dir, running, calls, outcome, summary, lc_vars,
                   target_position, target_video, mf_vars, ch_vars>>

\* Lines 258-297 without --position.
SelectVideosToProcess ==
    /\ pc = "read"
    /\ videos # <<>>
    /\ target_position = None
    /\ videos_to_process' = SelectVideos(videos, start_position)
    /\ successful_count' = 0
    /\ idx' = 1
    /\ pc' = "loop"
    /\ UNCHANGED <<videos, force, start_position, interrupted, files, json_dir, running,
                   calls, outcome, summary, exit_status, lc_vars,
                   target_position, target_video, mf_vars, ch_vars>>

\* Lines 298-302: the loop takes the next video, ends, or breaks.
LoopTest ==
    /\ pc = "loop"
    /\ pc' = IF idx > Len(videos_to_process) \/ StopRequested(interrupted)
             THEN "summary" ELSE "call"
    /\ UNCHANGED <<videos, force, start_position, interrupted, videos_to_process, idx,
                   successful_count, files, json_dir, running, calls, outcome, summary,
                   exit_status, lc_vars,
                   target_position, target_video, mf_vars, ch_vars>>

\* Line 304, lines 180-222 and 100-144: process_video up to its return on
\* the existence check or to the start of the live_chat.py subprocess.
ProcessVideo ==
    /\ pc = "call"
    /\ LET video == CurrentVideo
           id == video.videoId
           existing == ExistingChatData(files, id, force)
           call == [video |-> video, started |-> FALSE, ret |-> None]
       IN  IF ResumeHit(files, id, force)
           THEN /\ files' = ResumeCopy(files, id)
                /\ json_dir' = TRUE
                /\ calls' = Append(calls, [call EXCEPT !.ret = Some(TRUE)])
                /\ pc' = "returned"
                /\ UNCHANGED running
           ELSE IF existing.hit
           THEN /\ files' = existing.files
                /\ calls' = Append(calls, [call EXCEPT !.ret = Some(Succeeded(existing.ret))])
                /\ pc' = "returned"
                /\ UNCHANGED <<json_dir, running>>
           ELSE /\ json_dir' = TRUE
                /\ running' = running + 1
                /\ calls' = Append(calls, [call EXCEPT !.started = TRUE])
                /\ pc' = "subprocess"
                /\ UNCHANGED files
    /\ outcome' = "none"
    /\ UNCHANGED <<videos, force, start_position, interrupted, videos_to_process, idx,
                   successful_count, summary, exit_status, lc_vars,
                   target_position, target_video, mf_vars, ch_vars>>

\* Lines 144-178 and 223-228: subprocess.run is over (the subprocess has
\* exited or was killed at the timeout; it may have written its output file
\* json/<id>_live_chat_replay.json), and process_video returns.
SubprocessEnds ==
    /\ pc = "subprocess"
    /\ \E ended \in Outcomes, wrote \in BOOLEAN :
          LET id == CurrentVideo.videoId
              fs == IF wrote THEN files \cup {Path("json", id, Replay)} ELSE files
              r == AfterRun(fs, id, ended)
          IN  /\ files' = r.files
              /\ outcome' = ended
              /\ calls' = [calls EXCEPT ![Len(calls)].ret = Some(Succeeded(r.ret))]
    /\ running' = running - 1
    /\ pc' = "returned"
    /\ UNCHANGED <<videos, force, start_position, interrupted, videos_to_process, idx,
                   successful_count, json_dir, summary, exit_status, lc_vars,
                   target_position, target_video, mf_vars, ch_vars>>

\* Lines 305-310: the result is counted; the loop sleeps unless interrupted.
CountResult ==
    /\ pc = "returned"
    /\ successful_count' = Counted(successful_count, calls[Len(calls)].ret[1])
    /\ IF interrupted
       THEN pc' = "loop" /\ idx' = NextVideo(idx)
       ELSE pc' = "sleep" /\ UNCHANGED idx
    /\ UNCHANGED <<videos, force, start_position, interrupted, videos_to_process, files,
                   json_dir, running, calls, outcome, summary, exit_status, lc_vars,
                   target_position, target_video, mf_vars, ch_vars>>

\* Line 310: time.sleep(1) returns.
Sleep ==
    /\ pc = "sleep"
    /\ idx' = NextVideo(idx)
    /\ pc' = "loop"
    /\ UNCHANGED <<videos, force, start_position, interrupted, videos_to_process,
                   successful_count, files, json_dir, running, calls, outcome, summary,
                   exit_status, lc_vars,
                   target_position, target_video, mf_vars, ch_vars>>

\* Line 312, after which main returns.
PrintSummary ==
    /\ pc = "summary"
    /\ summary' = Some(<<successful_count, Len(videos_to_process)>>)
    /\ pc' = "done"
    /\ exit_status' = Some(0)
    /\ UNCHANGED <<videos, force, start_position, interrupted, videos_to_process, idx,
                   successful_count, files, json_dir, running, calls, outcome, lc_vars,
                   target_position, target_video, mf_vars, ch_vars>>

\* Lines 38-45: SIGINT is delivered between any two steps of the run.
signal_handler ==
    /\ pc \notin {"idle", "done", "exit"}
    /\ interrupted' = TRUE
    /\ UNCHANGED <<videos, force, start_position, pc, videos_to_process, idx,
                   successful_count, files, json_dir, running, calls, outcome, summary,
                   exit_status, lc_vars,
                   target_position, target_video, mf_vars, ch_vars>>

\* ---- main with --position ----------------------------------------------
\* A variant without the break of line 270: the last matching row is kept.
FindTarget_LastMatch(all, target) ==
    LET hits == {k \in 1..Len(all) : ParseInt(all[k].position) = Some(target)}
    IN  IF hits = {} THEN None
        ELSE Some(all[CHOOSE k \in hits : \A j \in hits : j <= k])

\* Lines 263-273: the first video whose position is the integer asked for.
FindTarget(all, target) ==
    LET hits == {k \in 1..Len(all) :
                    /\ ParseInt(all[k].position) # None
                    /\ ParseInt(all[k].position)[1] = target}
    IN  IF hits = {} THEN None
        ELSE Some(all[CHOOSE k \in hits : \A j \in hits : k <= j])

\* Lines 258-278: the search; without a match main prints an error and
\* returns.
FindTargetVideo ==
    /\ pc = "read"
    /\ videos # <<>>
    /\ target_position # None
    /\ target_video' = FindTarget(videos, target_position[1])
    /\ IF target_video' # None
       THEN pc' = "call" /\ UNCHANGED exit_status
       ELSE pc' = "done" /\ exit_status' = Some(0)
    /\ UNCHANGED <<videos, force, start_position, interrupted, videos_to_process, idx,
                   successful_count, files, json_dir, running, calls, outcome, summary,
                   target_position, lc_vars, mf_vars, ch_vars>>

\* Line 276 returns and main ends.
PositionReturn ==
    /\ pc = "returned"
    /\ target_position # None
    /\ pc' = "done"
    /\ exit_status' = Some(0)
    /\ UNCHANGED <<videos, force, start_position, interrupted, videos_to_process, idx,
                   successful_count, files, json_dir, running, calls, outcome, summary,
                   target_position, target_video, lc_vars, mf_vars, ch_vars>>

\* ---- read_text_file ------------------------------------------------------
\* A text is a sequence of characters: "\t", "\n" and " " are the tab, the
\* newline and the blank; a column name of the header is written as one
\* character, and every other string is one ordinary character.
Whitespace == {" ", "\t", "\n"}

\* str.strip() of lines 56, 63 and 77.
RECURSIVE StripWs(_)
StripWs(s) ==
    IF s = <<>> THEN s
    ELSE IF s[1] \in Whitespace THEN StripWs(Tail(s))
    ELSE IF s[Len(s)] \in Whitespace THEN StripWs(SubSeq(s, 1, Len(s) - 1))
    ELSE s

\* str.split(sep): the pieces between the separators, empty ones included.
RECURSIVE SplitOn(_, _)
SplitOn(s, sep) ==
    IF \A k \in 1..Len(s) : s[k] # sep THEN <<s>>
    ELSE LET k == CHOOSE i \in 1..Len(s) : s[i] = sep /\ \A j \in 1..(i - 1) : s[j] # sep
         IN  <<SubSeq(s, 1, k - 1)>> \o SplitOn(SubSeq(s, k + 1, Len(s)), sep)

\* file.readlines() of line 53: every line keeps its newline; a last line
\* without one is a line too.
RECURSIVE readlines(_)
readlines(s) ==
    IF s = <<>> THEN <<>>
    ELSE IF \A k \in 1..Len(s) : s[k] # "\n" THEN <<s>>
    ELSE LET k == CHOOSE i \in 1..Len(s) : s[i] = "\n" /\ \A j \in 1..(i - 1) : s[j] # "\n"
         IN  <<SubSeq(s, 1, k)>> \o readlines(SubSeq(s, k + 1, Len(s)))

\* 'name' in headers.
InHeaders(headers, name) == \E k \in 1..Len(headers) : headers[k] = <<name>>

\* headers_map.get(name) of lines 71-74, counted from 1: of two columns of
\* one name the dictionary keeps the later.
HeaderIndex(headers, name) ==
    CHOOSE k \in 1..Len(headers) :
        /\ headers[k] = <<name>>
        /\ \A j \in (k + 1)..Len(headers) : headers[j] # <<name>>

\* max() of line 80.
Max3(a, b, c) == CHOOSE m \in {a, b, c} : m >= a /\ m >= b /\ m >= c

\* A variant that leaves with status 0.
Exits_StatusZero == [status |-> "exit", code |-> 0, videos |-> <<>>]

\* sys.exit(1) of lines 60, 68, 95 and 98.
Exits == [status |-> "exit", code |-> 1, videos |-> <<>>]

\* Line 93.
Returns(list) == [status |-> "returned", code |-> 0, videos |-> list]

\* Line 66.
RequiredHeaders(headers) ==
    ~(~InHeaders(headers, "Position") \/ ~InHeaders(headers, "Video ID")
        \/ ~InHeaders(headers, "Title"))

\* Lines 47-98, for the content of the file (None when there is no file).
read_text_file(content) ==
    IF content = None THEN Exits
    ELSE
    LET lines == SelectSeq(readlines(content[1]), LAMBDA line : StripWs(line) # <<>>)
    IN  IF lines = <<>> THEN Exits
        ELSE
        LET headers == SplitOn(StripWs(lines[1]), "\t")
        IN  IF ~RequiredHeaders(headers) THEN Exits
            ELSE
            LET position_idx == HeaderIndex(headers, "Position")
                video_id_idx == HeaderIndex(headers, "Video ID")
                title_idx == HeaderIndex(headers, "Title")
                columns == [k \in 1..(Len(lines) - 1) |->
                               SplitOn(StripWs(lines[k + 1]), "\t")]
                Enough(c) == ~(Len(c) < Max3(position_idx, video_id_idx, title_idx))
                kept == SelectSeq(columns, Enough)
            IN  Returns([k \in 1..Len(kept) |->
                            [position |-> kept[k][position_idx],
                             videoId |-> kept[k][video_id_idx],
                             title |-> kept[k][title_idx]]])

\* Line 252 of main.
ReadTextFile ==
    /\ pc = "start"
    /\ LET result == read_text_file(text_file)
       IN  IF result.status = "exit"
           THEN pc' = "exit" /\ exit_status' = Some(result.code) /\ UNCHANGED videos
           ELSE pc' = "read" /\ videos' = result.videos /\ UNCHANGED exit_status
    /\ UNCHANGED <<force, start_position, interrupted, videos_to_process, idx,
                   successful_count, files, json_dir, running, calls, outcome, summary,
                   target_position, target_video, lc_vars, mf_vars, ch_vars>>

\* ---- ytpedlp.py ----------------------------------------------------------
\* A line of yt-dlp's output is blank, is not JSON ("invalid"), is JSON that
\* is no object ("scalar"), or is an object; id, title and channel are None
\* when the object has no such key.
Ids == {Some(<<"a">>), Some(<<"b">>)}

Titles == {None, Some(<<"t">>), Some(<<"t", "\t", "u">>), Some(<<"t", "\n", "u">>)}

Channels == {Some(<<"c">>), Some(<<"c", "\t", "d">>)}

OutputLines ==
    [kind : {"blank", "invalid", "scalar"}, id : {None}, title : {None}, channel : {None}]
        \cup [kind : {"object"}, id : Ids, title : Titles, channel : Channels]

\* video_data.get(key, "N/A") of lines 122-128.
GetOr(value) == IF value = None THEN <<"N/A">> ELSE value[1]

\* Lines 120-129, for an object at index i (from 1) of the output; the
\* object carries no timestamp, counts or duration.
VideoOf(line, i) ==
    [position |-> i, videoId |-> GetOr(line.id), title |-> GetOr(line.title),
     publishedAt |-> <<"N/A">>, channelTitle |-> GetOr(line.channel),
     viewCount |-> <<"N/A">>, commentCount |-> <<"N/A">>, duration |-> <<"N/A">>,
     channel_id |-> <<"N/A">>]

\* Lines 114-139: the videos of the lines before index n.
RECURSIVE VideosUpTo(_, _)
VideosUpTo(out, n) ==
    IF n = 0 THEN <<>>
    ELSE IF out[n].kind = "object" THEN VideosUpTo(out, n - 1) \o <<VideoOf(out[n], n)>>
    ELSE VideosUpTo(out, n - 1)

\* str() of a positive integer, as the f-string of line 241 writes it.
RECURSIVE DecimalString(_)
DecimalString(n) ==
    IF n < 10 THEN <<Digits[n + 1]>>
    ELSE DecimalString(n \div 10) \o <<Digits[(n % 10) + 1]>>

\* Line 237.
HeaderLine ==
    <<"Position", "\t", "Video ID", "\t", "Title", "\t", "Published Date", "\t",
      "Channel", "\t", "Views", "\t", "Comments", "\t", "Duration", "\t", "Channel ID",
      "\n">>

\* Lines 241-249.
VideoLine(video) ==
    DecimalString(video.position) \o <<"\t">> \o video.videoId \o <<"\t">>
        \o video.title \o <<"\t">> \o video.publishedAt \o <<"\t">>
        \o video.channelTitle \o <<"\t">> \o video.viewCount \o <<"\t">>
        \o video.commentCount \o <<"\t">> \o video.duration \o <<"\t">>
        \o video.channel_id \o <<"\n">>

\* Lines 226-251: the characters written to the output file.
RECURSIVE save_videos_to_file(_)
save_videos_to_file(list) ==
    IF list = <<>> THEN HeaderLine
    ELSE save_videos_to_file(SubSeq(list, 1, Len(list) - 1)) \o VideoLine(list[Len(list)])

\* Lines 93-151, the detailed retry apart. A failed yt-dlp leaves no videos;
\* .get on JSON that is no object raises AttributeError, which nothing
\* catches.
get_playlist_videos_with_ytdlp ==
    /\ yt_pc = "start"
    /\ IF yt_returncode # 0
       THEN yt_pc' = "fetched" /\ yt_videos' = <<>>
       ELSE IF \E k \in 1..Len(yt_stdout) : yt_stdout[k].kind = "scalar"
       THEN yt_pc' = "crashed" /\ UNCHANGED yt_videos
       ELSE yt_pc' = "fetched" /\ yt_videos' = VideosUpTo(yt_stdout, Len(yt_stdout))
    /\ UNCHANGED <<text_file, yt_returncode, yt_stdout, lc_vars, batch_vars, ch_vars>>

\* Lines 278-283 of main.
SaveVideos ==
    /\ yt_pc = "fetched"
    /\ yt_pc' = "done"
    /\ text_file' = IF yt_videos # <<>> THEN Some(save_videos_to_file(yt_videos))
                    ELSE text_file
    /\ UNCHANGED <<yt_returncode, yt_stdout, yt_videos, lc_vars, batch_vars, ch_vars>>

\* chat_from_txt.py is started on the file once ytpedlp.py has ended.
StartReader ==
    /\ yt_pc = "done"
    /\ pc = "idle"
    /\ pc' = "start"
    /\ UNCHANGED <<videos, force, start_position, interrupted, videos_to_process, idx,
                   successful_count, files, json_dir, running, calls, outcome, summary,
                   exit_status, target_position, target_video, lc_vars, mf_vars, ch_vars>>

\* ytpedlp.py is not run.
IdleYt ==
    /\ yt_pc = "idle"
    /\ yt_returncode = 0
    /\ yt_stdout = <<>>
    /\ yt_videos = <<>>

\* The manifest plays no part.
IdleManifest == text_file = None /\ IdleYt

\* ---- chat.py: download_live_chat_replay ----------------------------------
\* Line 97: the count at which intermediate results are saved.
SaveEvery == 1000

\* What one chat.get() brings: the number of items and how many of them
\* are turned into messages (lines 61-87 skip an item that raises).
Batches ==
    {[items |-> 0, good |-> 0], [items |-> 1, good |-> 0], [items |-> 400, good |-> 400],
     [items |-> 600, good |-> 600], [items |-> 1000, good |-> 1000]}

\* return None.
ReturnsNone == Some("None")

\* return output_file.
ReturnsPath == Some("path")

\* An exception leaves the function.
Propagates == Some("raised")

\* Lines 111-116 when the block raised an Exception: the test of line 113
\* reads all_messages, which is unbound before line 46 has run.
ExceptionHandled ==
    /\ ch_error' = "Exception"
    /\ IF ~ch_bound
       THEN ch_pc' = "done" /\ ch_result' = Propagates
       ELSE IF ch_count > 0
       THEN ch_pc' = "save" /\ UNCHANGED ch_result
       ELSE ch_pc' = "done" /\ ch_result' = ReturnsNone

\* Line 31, with the handler of lines 107-110.
ImportPytchat ==
    /\ ch_pc = "import"
    /\ \/ ch_pc' = "create" /\ UNCHANGED <<ch_error, ch_result>>
       \/ ch_pc' = "done" /\ ch_error' = "ImportError" /\ ch_result' = ReturnsNone
    /\ UNCHANGED <<ch_bound, ch_count, ch_gets, ch_temp, ch_final,
                   lc_vars, batch_vars, mf_vars>>

\* Lines 34-38: pytchat.create returns a chat, returns nothing, or raises.
CreateChat ==
    /\ ch_pc = "create"
    /\ \/ ch_pc' = "first_alive" /\ UNCHANGED <<ch_error, ch_result>>
       \/ ch_pc' = "done" /\ ch_result' = ReturnsNone /\ UNCHANGED ch_error
       \/ ExceptionHandled
    /\ UNCHANGED <<ch_bound, ch_count, ch_gets, ch_temp, ch_final,
                   lc_vars, batch_vars, mf_vars>>

\* Lines 41-50: the first chat.is_alive(), then all_messages = [].
FirstIsAlive ==
    /\ ch_pc = "first_alive"
    /\ \/ ch_pc' = "loop" /\ ch_bound' = TRUE /\ UNCHANGED <<ch_error, ch_result>>
       \/ ch_pc' = "done" /\ ch_result' = ReturnsNone /\ UNCHANGED <<ch_bound, ch_error>>
       \/ ExceptionHandled /\ UNCHANGED ch_bound
    /\ UNCHANGED <<ch_count, ch_gets, ch_temp, ch_final, lc_vars, batch_vars, mf_vars>>

\* Line 53: the test of the loop; after MaxGets batches the chat has ended.
ChatIsAlive ==
    /\ ch_pc = "loop"
    /\ \/ ch_gets < MaxGets /\ ch_pc' = "get" /\ UNCHANGED <<ch_error, ch_result>>
       \/ ch_pc' = "save" /\ UNCHANGED <<ch_error, ch_result>>
       \/ ExceptionHandled
    /\ UNCHANGED <<ch_bound, ch_count, ch_gets, ch_temp, ch_final,
                   lc_vars, batch_vars, mf_vars>>

\* Line 97, for the count after the batch.
TempSaveDue(message_count) == message_count % SaveEvery = 0

\* Lines 55-103: one chat.get() and what is done with its items.
GetBatch ==
    /\ ch_pc = "get"
    /\ \/ ExceptionHandled /\ UNCHANGED <<ch_count, ch_gets, ch_temp>>
       \/ \E data \in Batches :
             /\ ch_gets' = ch_gets + 1
             /\ ch_count' = ch_count + data.good
             /\ ch_temp' = IF data.items > 0 /\ TempSaveDue(ch_count')
                           THEN Some(ch_count') ELSE ch_temp
             /\ ch_pc' = "loop"
             /\ UNCHANGED <<ch_error, ch_result>>
    /\ UNCHANGED <<ch_bound, ch_final, lc_vars, batch_vars, mf_vars>>

\* Lines 119-127.
SaveAllMessages ==
    /\ ch_pc = "save"
    /\ ch_pc' = "done"
    /\ IF ch_count > 0
       THEN ch_final' = Some(ch_count) /\ ch_result' = ReturnsPath
       ELSE ch_result' = ReturnsNone /\ UNCHANGED ch_final
    /\ UNCHANGED <<ch_bound, ch_count, ch_gets, ch_temp, ch_error,
                   lc_vars, batch_vars, mf_vars>>

\* chat.py is not run.
IdleChat ==
    /\ ch_pc = "idle"
    /\ ch_bound = FALSE
    /\ ch_count = 0
    /\ ch_gets = 0
    /\ ch_temp = None
    /\ ch_final = None
    /\ ch_error = "none"
    /\ ch_result = None

IdleLive ==
    /\ lc_pc = "idle"
    /\ lc_dir = FALSE
    /\ lc_requests = <<>>
    /\ lc_page_status = 0
    /\ lc_html = None
    /\ lc_yt_data = None
    /\ lc_player_data = None
    /\ lc_chat_url = NoUrl
    /\ lc_chat_status = 0
    /\ lc_opens = 0
    /\ lc_exit = NotExited

IdleBatch ==
    /\ videos = <<>>
    /\ force = FALSE
    /\ start_position = None
    /\ interrupted = FALSE
    /\ pc = "idle"
    /\ videos_to_process = <<>>
    /\ idx = 0
    /\ successful_count = 0
    /\ files = {}
    /\ json_dir = FALSE
    /\ running = 0
    /\ calls = <<>>
    /\ outcome = "none"
    /\ summary = None
    /\ exit_status = NotExited
    /\ target_position = None
    /\ target_video = None

\* live_chat.py started with some video id and output directory.
InitLive ==
    /\ IdleBatch
    /\ IdleManifest
    /\ IdleChat
    /\ lc_pc = "start"
    /\ lc_dir \in BOOLEAN
    /\ lc_requests = <<>>
    /\ lc_page_status = 0
    /\ lc_html = None
    /\ lc_yt_data = None
    /\ lc_player_data = None
    /\ lc_chat_url = NoUrl
    /\ lc_chat_status = 0
    /\ lc_opens = 0
    /\ lc_exit = NotExited

NextLive ==
    \/ MakeOutputDir
    \/ GetVideoInfo
    \/ ResolveChatUrl
    \/ FetchChatData
    \/ SaveChatData

SpecLive == InitLive /\ [][NextLive]_vars

\* The arguments of --start tried.
StartChoices == {None, Some(10)}

\* The files of the manifest's videos present at the start.
InitialFiles(manifest) ==
    {fs \in SUBSET {f \in AllPaths : \E k \in 1..Len(manifest) : manifest[k].videoId = f[2]} :
        Cardinality(fs) <= MaxFiles}

\* chat_from_txt.py after parse_args and read_text_file (lines 243-252),
\* run without --position.
Init ==
    /\ IdleLive
    /\ IdleManifest
    /\ IdleChat
    /\ videos \in UNION {Manifests(n) : n \in 0..MaxRows}
    /\ force \in BOOLEAN
    /\ start_position \in StartChoices
    /\ interrupted = FALSE
    /\ pc = "read"
    /\ videos_to_process = <<>>
    /\ idx = 0
    /\ successful_count = 0
    /\ files \in InitialFiles(videos)
    /\ json_dir \in {d \in BOOLEAN : (\E f \in files : f[1] = "json") => d}
    /\ running = 0
    /\ calls = <<>>
    /\ outcome = "none"
    /\ summary = None
    /\ exit_status = NotExited
    /\ target_position = None
    /\ target_video = None

Next ==
    \/ NoVideosFound
    \/ SelectVideosToProcess
    \/ LoopTest
    \/ ProcessVideo
    \/ SubprocessEnds
    \/ CountResult
    \/ Sleep
    \/ PrintSummary
    \/ signal_handler

Spec == Init /\ [][Next]_vars

\* The arguments of --position tried.
PositionChoices == {Some(2), Some(10)}

\* chat_from_txt.py run with --position, with or without --start.
InitPosition ==
    /\ IdleLive
    /\ IdleManifest
    /\ IdleChat
    /\ videos \in UNION {Manifests(n) : n \in 0..MaxRows}
    /\ force \in BOOLEAN
    /\ start_position \in StartChoices
    /\ target_position \in PositionChoices
    /\ target_video = None
    /\ interrupted = FALSE
    /\ pc = "read"
    /\ videos_to_process = <<>>
    /\ idx = 0
    /\ successful_count = 0
    /\ files \in InitialFiles(videos)
    /\ json_dir \in {d \in BOOLEAN : (\E f \in files : f[1] = "json") => d}
    /\ running = 0
    /\ calls = <<>>
    /\ outcome = "none"
    /\ summary = None
    /\ exit_status = NotExited

NextPosition ==
    \/ NoVideosFound
    \/ FindTargetVideo
    \/ ProcessVideo
    \/ SubprocessEnds
    \/ PositionReturn
    \/ signal_handler

SpecPosition == InitPosition /\ [][NextPosition]_vars

\* ---- manifests as files ---------------------------------------------------
\* str.join: the pieces with the separator between them.
RECURSIVE Join(_, _)
Join(pieces, sep) ==
    IF pieces = <<>> THEN <<>>
    ELSE IF Len(pieces) = 1 THEN pieces[1]
    ELSE pieces[1] \o <<sep>> \o Join(Tail(pieces), sep)

\* The header lines tried: the one ytpedlp.py writes, the three columns in
\* another order, after another column, with one repeated, with surrounding
\* white space, and with one or all of them missing.
HeaderLines ==
    {<<"Position", "\t", "Video ID", "\t", "Title", "\t", "Published Date", "\t",
       "Channel", "\t", "Views", "\t", "Comments", "\t", "Duration", "\t", "Channel ID">>,
     <<"Title", "\t", "Position", "\t", "Video ID">>,
     <<"Channel", "\t", "Position", "\t", "Video ID", "\t", "Title">>,
     <<"Position", "\t", "Video ID", "\t", "Title", "\t", "Position">>,
     <<" ", "Position", "\t", "Video ID", "\t", "Title", "\t">>,
     <<"Position", "\t", "Video ID">>,
     <<"Channel">>}

\* The cell written in column j of data row n: a digit that tells the rows
\* apart, followed from the second column on by a letter that tells the
\* columns apart.
ColumnLetters == <<"p", "a", "x", "z">>

Cell(n, j) == IF j = 1 THEN <<Digits[n + 1]>> ELSE <<Digits[n + 1], ColumnLetters[j]>>

\* The lines tried for data row n: up to four cells, each of the first
\* three written or left empty, and a line of one blank.
DataLines(n) ==
    {Join([j \in 1..k |-> IF j \in filled THEN Cell(n, j) ELSE <<>>], "\t") :
        k \in 0..4, filled \in {f \cup {4} : f \in SUBSET (1..3)}} \cup {<<" ">>}

\* The files of n data lines under a header line, or without one.
RECURSIVE LinesOf(_)
LinesOf(n) ==
    IF n = 0 THEN {<<>>}
    ELSE {ls \o <<l>> : ls \in LinesOf(n - 1), l \in DataLines(n)}

Texts(rows) ==
    {Join(h \o ls, "\n") :
        h \in {<<>>} \cup {<<hl>> : hl \in HeaderLines},
        ls \in UNION {LinesOf(n) : n \in 0..rows}}

\* chat_from_txt.py started on a file, with --position 1.
InitRead ==
    /\ IdleLive
    /\ IdleYt
    /\ IdleChat
    /\ text_file \in {None} \cup {Some(t) : t \in Texts(MaxRows)}
    /\ videos = <<>>
    /\ force = FALSE
    /\ start_position = None
    /\ target_position = Some(1)
    /\ target_video = None
    /\ interrupted = FALSE
    /\ pc = "start"
    /\ videos_to_process = <<>>
    /\ idx = 0
    /\ successful_count = 0
    /\ files = {}
    /\ json_dir = FALSE
    /\ running = 0
    /\ calls = <<>>
    /\ outcome = "none"
    /\ summary = None
    /\ exit_status = NotExited

NextRead ==
    \/ ReadTextFile
    \/ NoVideosFound
    \/ FindTargetVideo
    \/ ProcessVideo
    \/ SubprocessEnds
    \/ PositionReturn

SpecRead == InitRead /\ [][NextRead]_vars

\* ytpedlp.py run where no output file exists, then chat_from_txt.py on the
\* file it wrote.
InitPlaylist ==
    /\ IdleLive
    /\ IdleBatch
    /\ IdleChat
    /\ text_file = None
    /\ yt_pc = "start"
    /\ yt_returncode \in {0, 1}
    /\ yt_stdout \in SeqsUpTo(OutputLines, MaxRows)
    /\ yt_videos = <<>>

NextPlaylist ==
    \/ get_playlist_videos_with_ytdlp
    \/ SaveVideos
    \/ StartReader
    \/ ReadTextFile

SpecPlaylist == InitPlaylist /\ [][NextPlaylist]_vars

\* download_live_chat_replay called where neither output file exists.
InitChat ==
    /\ IdleLive
    /\ IdleBatch
    /\ IdleManifest
    /\ ch_pc = "import"
    /\ ch_bound = FALSE
    /\ ch_count = 0
    /\ ch_gets = 0
    /\ ch_temp = None
    /\ ch_final = None
    /\ ch_error = "none"
    /\ ch_result = None

NextChat ==
    \/ ImportPytchat
    \/ CreateChat
    \/ FirstIsAlive
    \/ ChatIsAlive
    \/ GetBatch
    \/ SaveAllMessages

SpecChat == InitChat /\ [][NextChat]_vars

\* ------------------------------------------------- properties of live_chat.py
\* C1: a watch-page or chat response with a status other than 200 ends the
\* run with exit status 1 at that request: the request is the last one
\* issued and was issued once, no later step has run, and the output file
\* has not been opened for writing.
C1_Non200Aborts ==
    /\ lc_page_status \notin {0, 200} =>
          /\ lc_pc = "exit" /\ lc_exit = Some(1)
          /\ lc_requests = <<"watch">>
          /\ lc_chat_url = NoUrl /\ lc_chat_status = 0
          /\ lc_opens = 0
    /\ lc_chat_status \notin {0, 200} =>
          /\ lc_pc = "exit" /\ lc_exit = Some(1)
          /\ lc_requests = <<"watch", lc_chat_url>>
          /\ lc_opens = 0

\* A run that the chat request's status ended.
C1_Witness ==
    /\ lc_page_status = 200
    /\ lc_chat_status = 404
    /\ lc_pc = "exit"

\* C2: a page on which neither ytInitialData pattern matches, or neither
\* ytInitialPlayerResponse pattern matches, ends the run with exit status 1
\* and no chat request, whatever the other blob holds.
C2_MissingBlobAborts ==
    (/\ lc_html # None
     /\ \/ lc_html[1].yt.pattern = "none"
        \/ lc_html[1].player.pattern = "none")
    => /\ lc_pc = "exit" /\ lc_exit = Some(1)
       /\ lc_requests = <<"watch">>
       /\ lc_chat_status = 0

\* ytInitialData is missing while the player response holds a caption track
\* whose baseUrl would have been the chat URL.
C2_Witness ==
    /\ lc_html # None
    /\ lc_html[1].yt.pattern = "none"
    /\ lc_html[1].player.json # None
    /\ lc_html[1].player.json[1].tracks # <<>>
    /\ lc_html[1].player.json[1].tracks[1].kind = "asr"
    /\ lc_html[1].player.json[1].tracks[1].baseUrl = "url"
    /\ lc_pc = "exit"

\* The order of the run's positions.
LcRank(p) ==
    CASE p = "start" -> 0
      [] p = "video_info" -> 1
      [] p = "resolve" -> 2
      [] p = "fetch" -> 3
      [] p = "save" -> 4
      [] OTHER -> 5

\* C3: a run issues at most two GET requests, the watch page and then the
\* resolved chat URL, each once; every step moves the run forward (nothing
\* is repeated), and the output file is written at most once.
C3_AtMostTwoRequests ==
    /\ [](/\ \/ lc_requests = <<>>
              \/ lc_requests = <<"watch">>
              \/ /\ Len(lc_requests) = 2
                 /\ lc_requests[1] = "watch"
                 /\ lc_requests[2] \in {CaptionUrl, ReplayPageUrl, ContinuationUrl}
           /\ lc_opens <= 1)
    /\ [][LcRank(lc_pc') > LcRank(lc_pc)]_vars

\* A run that issued both requests and wrote the file.
C3_Witness ==
    /\ lc_exit = Some(0)
    /\ Len(lc_requests) = 2
    /\ lc_opens = 1

\* ---------------------------------------------- properties of chat_from_txt.py
LastCall == calls[Len(calls)]

\* A step that starts a process_video call.
CallStarts == Len(calls') = Len(calls) + 1

\* Some candidate path of the video exists.
CandidateExists(fs, video_id) ==
    \/ <<".", video_id, "_live_chat.json">> \in fs
    \/ <<".", video_id, "_live_chat_replay.json">> \in fs
    \/ <<"json", video_id, "_live_chat.json">> \in fs
    \/ <<"json", video_id, "_live_chat_replay.json">> \in fs

\* C4: with force off, a process_video call made while one of the four
\* candidate paths of its video exists returns True without starting the
\* live_chat.py subprocess.
C4_ResumeSkipsDownload ==
    [][(CallStarts /\ ~force /\ CandidateExists(files, CurrentVideo.videoId))
       => /\ pc' = "returned"
          /\ calls'[Len(calls')].ret = Some(TRUE)
          /\ ~calls'[Len(calls')].started
          /\ running' = 0]_vars

\* A call that returned True on a file found in the json directory only.
C4_Witness ==
    /\ ~force
    /\ pc = "returned"
    /\ Len(calls) = 1
    /\ ~LastCall.started
    /\ LastCall.ret = Some(TRUE)
    /\ <<".", LastCall.video.videoId, "_live_chat.json">> \notin files
    /\ <<".", LastCall.video.videoId, "_live_chat_replay.json">> \notin files
    /\ <<"json", LastCall.video.videoId, "_live_chat_replay.json">> \in files

\* C5: whenever a process_video call has returned True, the file
\* json/<videoId>_live_chat.json exists.
C5_TrueMeansJsonFile ==
    \A k \in 1..Len(calls) :
        calls[k].ret = Some(TRUE) => <<"json", calls[k].video.videoId, "_live_chat.json">> \in files

\* One call returned True on the existence check and the next one after a
\* download.
C5_Witness ==
    /\ Len(calls) = 2
    /\ ~calls[1].started /\ calls[1].ret = Some(TRUE)
    /\ calls[2].started /\ calls[2].ret = Some(TRUE)
    /\ calls[1].video.videoId # calls[2].video.videoId

\* C6: at most one subprocess runs at any moment, a call of process_video
\* starts only after the previous one has returned, and the calls are made
\* for the selected videos in manifest order, each at most once.
C6_Sequential ==
    /\ running <= 1
    /\ running = 1 <=> pc = "subprocess"
    /\ \A k \in 1..Len(calls) : calls[k].ret = None => (k = Len(calls) /\ pc = "subprocess")
    /\ Len(calls) <= Len(videos_to_process)
    /\ \A k \in 1..Len(calls) : calls[k].video = videos_to_process[k]
    /\ \A k \in 1..(Len(calls) - 1) : calls[k].video.row < calls[k + 1].video.row

\* The second video's subprocess runs after the first video's has ended.
C6_Witness ==
    /\ Len(calls) = 2
    /\ calls[1].started /\ calls[1].ret # None
    /\ calls[2].started
    /\ pc = "subprocess"

\* C7 as stated: once the flag is set it stays set, no process_video call is
\* started any more, and the run ends with the summary line.
C7_NoCallAfterInterrupt ==
    /\ [][/\ interrupted => interrupted'
          /\ interrupted => ~CallStarts]_vars
    /\ [](pc = "done" => summary # None)

\* C7 as amended: once the flag is set it stays set; the handler changes
\* nothing else, so the video in progress finishes; the loop's test at line
\* 300 lets no further video through, so the only call that can still start
\* is the one whose test had passed before the flag was set; and a run that
\* ends has printed the summary line.
C7_InterruptStopsLoop ==
    /\ [][/\ interrupted => interrupted'
          /\ (~interrupted /\ interrupted') =>
                UNCHANGED <<pc, idx, videos_to_process, successful_count, files,
                            running, calls, outcome, summary, exit_status>>
          /\ (interrupted /\ pc # "call") => pc' # "call"
          /\ (interrupted /\ CallStarts) => pc = "call"
          /\ (interrupted /\ pc = "subprocess") => pc' \in {"subprocess", "returned"}]_vars
    /\ [](pc = "done" => summary # None /\ exit_status = Some(0))

\* The flag, set while the first video was processed, ended the run before
\* the second video.
C7_Witness ==
    /\ interrupted
    /\ pc = "done"
    /\ summary # None
    /\ Len(calls) = 1
    /\ calls[1].started
    /\ Len(videos_to_process) = 2

\* The calls that returned True.
TrueCalls == {k \in 1..Len(calls) : calls[k].ret = Some(TRUE)}

\* C8: a call whose download failed (timeout, non-zero exit, another
\* exception, or no output file after exit status 0) returns False; the run
\* is not aborted: without an interrupt every selected video is processed,
\* and the count of the summary line is the number of calls that returned
\* True.
C8_FailuresDoNotAbort ==
    /\ (pc = "returned" /\ outcome \in {"timeout", "nonzero", "exception"})
          => LastCall.ret = Some(FALSE)
    /\ (/\ pc = "returned" /\ outcome = "exit0"
        /\ <<"json", LastCall.video.videoId, "_live_chat_replay.json">> \notin files
        /\ <<"json", LastCall.video.videoId, "_live_chat.json">> \notin files)
          => LastCall.ret = Some(FALSE)
    /\ pc = "exit" => videos = <<>>
    /\ (pc \in {"summary", "done"} /\ ~interrupted) => Len(calls) = Len(videos_to_process)
    /\ pc \in {"loop", "summary", "done"} => successful_count = Cardinality(TrueCalls)
    /\ pc = "done" => summary = Some(<<Cardinality(TrueCalls), Len(videos_to_process)>>)

\* The first video's download failed, the second one's succeeded, and the
\* summary counts one.
C8_Witness ==
    /\ pc = "done"
    /\ ~interrupted
    /\ Len(calls) = 2
    /\ calls[1].started /\ calls[1].ret = Some(FALSE)
    /\ calls[2].started /\ calls[2].ret = Some(TRUE)
    /\ summary = Some(<<1, 2>>)

\* C9: with --force every process_video call starts the subprocess.
C9_ForceAlwaysDownloads ==
    force => \A k \in 1..Len(calls) : calls[k].started

\* The subprocess runs although the video's standard file exists in both
\* directories.
C9_Witness ==
    /\ force
    /\ pc = "subprocess"
    /\ running = 1
    /\ <<".", CurrentVideo.videoId, "_live_chat.json">> \in files
    /\ <<"json", CurrentVideo.videoId, "_live_chat.json">> \in files

\* The rows --start N keeps: those whose Position is an integer >= N.
RowsFromStart ==
    {k \in 1..Len(videos) :
        \/ start_position = None
        \/ /\ ParseInt(videos[k].position) # None
           /\ ParseInt(videos[k].position)[1] >= start_position[1]}

\* C10: the videos the loop works through are the manifest rows whose
\* Position is an integer >= N (all rows without --start), in manifest
\* order; the calls of process_video follow that list, and cover it when the
\* run ends without an interrupt.
C10_StartSelectsRows ==
    pc \notin {"read", "exit"} =>
        /\ Len(videos_to_process) = Cardinality(RowsFromStart)
        /\ \A j \in 1..Len(videos_to_process) :
              /\ videos_to_process[j].row \in RowsFromStart
              /\ videos_to_process[j] = videos[videos_to_process[j].row]
              /\ j > 1 => videos_to_process[j - 1].row < videos_to_process[j].row
        /\ \A k \in 1..Len(calls) : k <= Len(videos_to_process) /\ calls[k].video = videos_to_process[k]
        /\ (pc = "done" /\ ~interrupted) => Len(calls) = Len(videos_to_process)

\* --start 10 with a row at position 2 and a row at position 10: the run
\* processed the second row only.
C10_Witness ==
    /\ start_position = Some(10)
    /\ Len(videos) = 2
    /\ videos[1].position = <<"2">>
    /\ videos[2].position = <<"1", "0">>
    /\ pc = "done"
    /\ Len(calls) = 1
    /\ calls[1].video.row = 2

\* ------------------------------------------------ properties of --position
\* The rows whose Position is the integer asked for.
RowsAtTarget ==
    {k \in 1..Len(videos) :
        /\ ParseInt(videos[k].position) # None
        /\ ParseInt(videos[k].position)[1] = target_position[1]}

\* C11: with --position P at most one video is processed, the first row
\* whose Position is the integer P; when no row qualifies no video is
\* processed and no subprocess runs; --start plays no part.
C11_PositionSelectsFirstMatch ==
    /\ Len(calls) <= 1
    /\ videos_to_process = <<>>
    /\ RowsAtTarget = {} => (calls = <<>> /\ running = 0 /\ pc \in {"read", "exit", "done"})
    /\ \A k \in 1..Len(calls) :
          /\ calls[k].video.row \in RowsAtTarget
          /\ \A j \in RowsAtTarget : calls[k].video.row <= j
          /\ calls[k].video = videos[calls[k].video.row]
    /\ (pc = "done" /\ RowsAtTarget # {}) => Len(calls) = 1

\* Two rows at position 2 and --start 10: the first row was processed.
C11_Witness ==
    /\ target_position = Some(2)
    /\ start_position = Some(10)
    /\ Len(videos) = 2
    /\ videos[1].position = <<"2">>
    /\ videos[2].position = <<"2">>
    /\ pc = "done"
    /\ Len(calls) = 1
    /\ calls[1].video.row = 1
    /\ calls[1].started

\* ------------------------------------------- properties of read_text_file
\* The lines of the file that are not blank, without their newline.
NonBlankLines ==
    LET all == SplitOn(text_file[1], "\n")
    IN  SelectSeq(all, LAMBDA line : \E k \in 1..Len(line) : line[k] \notin Whitespace)

\* The column names of the first non-blank line.
FirstLineNames == SplitOn(StripWs(NonBlankLines[1]), "\t")

\* The file is missing, has no non-blank line, or its first non-blank line
\* lacks one of the three column names.
NoUsableHeader ==
    \/ text_file = None
    \/ NonBlankLines = <<>>
    \/ \E name \in {"Position", "Video ID", "Title"} :
          \A k \in 1..Len(FirstLineNames) : FirstLineNames[k] # <<name>>

\* C12: when the manifest is missing, has no non-blank line, or its first
\* non-blank line lacks Position, Video ID or Title, the run ends with exit
\* status 1 and no video is processed; so does a run whose manifest has a
\* valid header and no usable data row.
C12_BadManifestExits ==
    /\ (pc # "start" /\ NoUsableHeader) =>
          /\ pc = "exit"
          /\ exit_status = Some(1)
          /\ videos = <<>>
          /\ calls = <<>> /\ running = 0
    /\ (pc \notin {"start", "read"} /\ videos = <<>>) =>
          /\ pc = "exit"
          /\ exit_status = Some(1)
          /\ calls = <<>> /\ running = 0
    /\ pc = "exit" => (videos = <<>> /\ calls = <<>>)

\* A header without Title above two full data rows: exit status 1.
C12_Witness ==
    /\ text_file # None
    /\ Len(NonBlankLines) = 3
    /\ FirstLineNames = <<<<"Position">>, <<"Video ID">>>>
    /\ Len(SplitOn(NonBlankLines[2], "\t")) = 4
    /\ Len(SplitOn(NonBlankLines[3], "\t")) = 4
    /\ pc = "exit"
    /\ exit_status = Some(1)
    /\ calls = <<>>

\* The records of the data rows that have enough tab-separated columns,
\* each field taken from the column of its header.
ExpectedVideos ==
    LET p == HeaderIndex(FirstLineNames, "Position")
        v == HeaderIndex(FirstLineNames, "Video ID")
        t == HeaderIndex(FirstLineNames, "Title")
        rows == [k \in 1..(Len(NonBlankLines) - 1) |-> SplitOn(NonBlankLines[k + 1], "\t")]
        Covers(c) == Len(c) >= p /\ Len(c) >= v /\ Len(c) >= t
        kept == SelectSeq(rows, Covers)
    IN  [k \in 1..Len(kept) |->
            [position |-> kept[k][p], videoId |-> kept[k][v], title |-> kept[k][t]]]

\* C13: read_text_file returns, in file order, one record per non-blank data
\* row that has enough tab-separated columns to cover Position, Video ID and
\* Title, each field taken from the column of its header.
C13_RecordPerRow ==
    (pc = "read" /\ ~NoUsableHeader) => videos = ExpectedVideos

\* ----------------------------------------------- properties of the manifest
\* C18: the list written by save_videos_to_file and read back by
\* read_text_file has the same length and order, with position (as its
\* decimal string), videoId and title equal to the written ones.
C18_RoundTrip ==
    pc = "read" =>
        /\ Len(videos) = Len(yt_videos)
        /\ \A k \in 1..Len(videos) :
              /\ k <= Len(yt_videos)
              /\ videos[k].position = DecimalString(yt_videos[k].position)
              /\ videos[k].videoId = yt_videos[k].videoId
              /\ videos[k].title = yt_videos[k].title

\* The rows of the file written, the header first.
FileRows == SplitOn(SubSeq(text_file[1], 1, Len(text_file[1]) - 1), "\n")

\* The lines of yt-dlp's output that parse as JSON.
ParsedLines == SelectSeq(yt_stdout, LAMBDA line : line.kind \in {"object", "scalar"})

\* C14: the file ytpedlp.py writes has the header row followed by exactly one
\* data row for each non-blank output line of yt-dlp that parses as JSON, in
\* the order of the lines.
C14_RowPerParsedLine ==
    (yt_pc = "done" /\ text_file # None) =>
        /\ FileRows[1] \o <<"\n">> = HeaderLine
        /\ Len(FileRows) = 1 + Len(ParsedLines)
        /\ \A k \in 1..Len(ParsedLines) :
              /\ k + 1 <= Len(FileRows)
              /\ LET cells == SplitOn(FileRows[k + 1], "\t")
                 IN  /\ Len(cells) >= 2
                     /\ cells[2] = GetOr(ParsedLines[k].id)

\* --------------------------------------------------- properties of chat.py
\* C15: when the download block raises an exception other than ImportError,
\* the function propagates none: it returns None when no message was
\* collected, and otherwise writes the messages collected to
\* <id>_live_chat.json and returns its path.
C15_ErrorsAreContained ==
    (ch_pc = "done" /\ ch_error = "Exception") =>
        /\ ch_result # Propagates
        /\ ch_count = 0 => (ch_result = ReturnsNone /\ ch_final = None)
        /\ ch_count > 0 => (ch_result = ReturnsPath /\ ch_final = Some(ch_count))

\* C16: once a batch has been taken in, the intermediate file holds the
\* messages collected when the count last reached or passed a multiple of
\* 1000, and there is no intermediate file while fewer than 1000 messages
\* have been collected.
C16_TempSavedEveryThousand ==
    ch_pc \in {"loop", "save", "done"} =>
        /\ ch_count >= SaveEvery =>
              /\ ch_temp # None
              /\ ch_temp[1] <= ch_count
              /\ ch_temp[1] \div SaveEvery = ch_count \div SaveEvery
        /\ ch_count < SaveEvery => ch_temp = None

\* ------------------------------------------- properties of the chat URL
\* The first caption track of kind asr or with live_chat in its name carries
\* a URL.
CaptionTrackYields ==
    LET tracks == lc_player_data[1].tracks
        m == FirstMatchingTrack(tracks)
    IN  m # 0 /\ tracks[m].baseUrl = "url"

\* The player data holds the liveChatRenderer marker and the video id.
MarkerYields == lc_player_data[1].marker /\ lc_player_data[1].videoId

\* ytInitialData holds a continuation token.
TokenYields == lc_yt_data[1].replay = "token"

\* C17: the chat URL is resolved in a fixed order: the URL of a caption
\* track of kind asr or with live_chat in its name; else, with the
\* liveChatRenderer marker, the live_chat_replay page of the video; else the
\* continuation URL, the token being consulted only when the first two
\* yield nothing; when all three yield nothing the run exits with status 1
\* and the second request is not made.
C17_UrlPriority ==
    (lc_pc \in {"fetch", "save", "exit"} /\ lc_player_data # None) =>
        IF CaptionTrackYields THEN lc_chat_url = CaptionUrl
        ELSE IF MarkerYields THEN lc_chat_url = ReplayPageUrl
        ELSE IF TokenYields THEN lc_chat_url = ContinuationUrl
        ELSE /\ lc_pc = "exit"
             /\ lc_exit = Some(1)
             /\ lc_requests = <<"watch">>
====
